---- MODULE Spec2Model ----
(***************************************************************************)
(* Model of p4team/crypto_commons/rsa/rsa_commons.py: the number-theoretic *)
(* primitives (extended Euclid, modular inverse, lcm, CRT, RSA-CRT,        *)
(* Hensel lifting, Tonelli-Shanks) and the two attacks built on them       *)
(* (Hastad broadcast, homomorphic blinding).                               *)
(*                                                                         *)
(* The module is Python 2: "/" on integers is floor division, "%" takes    *)
(* the sign of the divisor.  Every divisor the model meets is positive,    *)
(* where \div and % of Integers agree with Python.                         *)
(***************************************************************************)
EXTENDS Integers, Sequences, FiniteSets, TLC

VARIABLES
    fn,          \* name of the function under call
    args,        \* its arguments, as a tuple
    ret,         \* its return value (meaningful once pc = "done")
    pc,          \* position of the call: "call", "done", "failed", or a step of
                 \* homomorphic_blinding_rsa ("split", "sign")
    data,        \* homomorphic_blinding_rsa: local `data`
    parts,       \* homomorphic_blinding_rsa: local `parts`
    signatures,  \* homomorphic_blinding_rsa: local `signatures`
    log          \* calls made to the external collaborators, in order

vars == <<fn, args, ret, pc, data, parts, signatures, log>>

locals == <<data, parts, signatures, log>>

----------------------------------------------------------------------------
(* Bounds of the explored inputs *)

MaxArg == 12

MaxResidue == 3

MaxModulus == 7

MaxPairs == 3

MaxPrime == 7

MaxFactors == 2

MaxExp == 5

MaxSqrtPrime == 41

MaxCoeff == 3

MaxHenselPrime == 5

MaxPower == 3

MaxNumber == 6

MaxNumbers == 3

MaxByte == 40

MaxHighByte == 1

MaxSplits == 2

----------------------------------------------------------------------------
(* Arithmetic the claims are stated with (independent of the code) *)

Abs(n) == IF n < 0 THEN -n ELSE n

Divides(d, n) == d # 0 /\ n % Abs(d) = 0

CommonDivisors(a, b) == {d \in 1..(Abs(a) + Abs(b)) : Divides(d, a) /\ Divides(d, b)}

\* g is the greatest common divisor of a and b (0 when both are 0)
IsGcd(g, a, b) ==
    IF a = 0 /\ b = 0 THEN g = 0
    ELSE g \in CommonDivisors(a, b) /\ \A d \in CommonDivisors(a, b) : d <= g

Coprime(a, b) == CommonDivisors(a, b) = {1}

IsPrime(p) == p > 1 /\ \A d \in 2..(p - 1) : p % d # 0

RECURSIVE Product(_)
Product(s) == IF s = <<>> THEN 1 ELSE Head(s) * Product(Tail(s))

RECURSIVE Power(_, _)
Power(b, e) == IF e = 0 THEN 1 ELSE b * Power(b, e - 1)

----------------------------------------------------------------------------
(* Python built-ins used by the module *)

\* pow(b, e, m) for e >= 0 and m > 0
RECURSIVE pow(_, _, _)
pow(b, e, m) == IF e = 0 THEN 1 % m ELSE (b * pow(b, e - 1, m)) % m

----------------------------------------------------------------------------
(* extended_gcd, gcd, modinv *)

\* the while loop of extended_gcd: one unfolding per iteration
RECURSIVE extended_gcd_loop(_, _, _, _, _, _)
extended_gcd_loop(lastremainder, remainder, x, lastx, y, lasty) ==
    IF remainder = 0
    THEN <<lastremainder, lastx, lasty>>
    ELSE LET quotient == lastremainder \div remainder
         IN  extended_gcd_loop(remainder, lastremainder % remainder,
                               lastx - quotient * x, x,
                               lasty - quotient * y, y)

extended_gcd_unsigned(a, b) ==
    LET r == extended_gcd_loop(Abs(a), Abs(b), 0, 1, 1, 0)
    IN  <<r[1], r[2], r[3]>>

extended_gcd(a, b) ==
    LET r == extended_gcd_loop(Abs(a), Abs(b), 0, 1, 1, 0)
    IN  <<r[1],
          r[2] * (IF a < 0 THEN -1 ELSE 1),
          r[3] * (IF b < 0 THEN -1 ELSE 1)>>

gcd(a, b) == extended_gcd(a, b)[1]

modinv_other_coefficient(x, y) == extended_gcd(x, y)[3] % y

modinv(x, y) == extended_gcd(x, y)[2] % y

----------------------------------------------------------------------------
(* Calls of the pure functions: Init draws the arguments, the action applies
   the function *)

Idle == data = 0 /\ parts = <<>> /\ signatures = <<>> /\ log = <<>>

InitModinv ==
    /\ fn = "modinv"
    /\ args \in (1..MaxArg) \X (1..MaxArg)
    /\ ret = 0
    /\ pc = "call"
    /\ Idle

CallModinv ==
    /\ pc = "call" /\ fn = "modinv"
    /\ ret' = modinv(args[1], args[2])
    /\ pc' = "done"
    /\ UNCHANGED <<fn, args, locals>>

SpecModinv == InitModinv /\ [][CallModinv]_vars

InitExtendedGcd ==
    /\ fn = "extended_gcd"
    /\ args \in ((-MaxArg)..MaxArg) \X ((-MaxArg)..MaxArg)
    /\ ret = <<0, 0, 0>>
    /\ pc = "call"
    /\ Idle

CallExtendedGcd ==
    /\ pc = "call" /\ fn = "extended_gcd"
    /\ ret' = extended_gcd(args[1], args[2])
    /\ pc' = "done"
    /\ UNCHANGED <<fn, args, locals>>

SpecExtendedGcd == InitExtendedGcd /\ [][CallExtendedGcd]_vars

----------------------------------------------------------------------------
(* solve_crt *)

RECURSIVE Sum(_)
Sum(s) == IF s = <<>> THEN 0 ELSE Head(s) + Sum(Tail(s))

solve_crt_unreduced(residue_and_moduli) ==
    LET len      == Len(residue_and_moduli)
        moduli   == [i \in 1..len |-> residue_and_moduli[i][2]]
        residues == [i \in 1..len |-> residue_and_moduli[i][1]]
        N        == Product(moduli)
        Nxs      == [i \in 1..len |-> N \div moduli[i]]
        ds       == [i \in 1..len |-> modinv(N \div moduli[i], moduli[i])]
        mults    == [i \in 1..len |-> residues[i] * Nxs[i] * ds[i]]
    IN  Sum(mults)

solve_crt(residue_and_moduli) ==
    LET len      == Len(residue_and_moduli)
        moduli   == [i \in 1..len |-> residue_and_moduli[i][2]]
        residues == [i \in 1..len |-> residue_and_moduli[i][1]]
        N        == Product(moduli)
        Nxs      == [i \in 1..len |-> N \div moduli[i]]
        ds       == [i \in 1..len |-> modinv(N \div moduli[i], moduli[i])]
        mults    == [i \in 1..len |-> residues[i] * Nxs[i] * ds[i]]
    IN  Sum(mults) % N

PairwiseCoprime(ms) ==
    \A i, j \in 1..Len(ms) : i < j => Coprime(ms[i], ms[j])

ModuliOf(pairs) == [i \in 1..Len(pairs) |-> pairs[i][2]]

\* lists of 1..MaxPairs pairwise-coprime moduli > 1
ModuliLists ==
    {ns \in UNION {[1..n -> 2..MaxModulus] : n \in 1..MaxPairs} :
        PairwiseCoprime(ns)}

\* the congruences (residue_i, modulus_i) of residues rs and moduli ns
Congruences(rs, ns) == [i \in 1..Len(ns) |-> <<rs[i], ns[i]>>]

\* the residues, not necessarily reduced
ResidueLists(n) == [1..n -> (-1)..MaxResidue]

InitSolveCrt ==
    /\ fn = "solve_crt"
    /\ \E ns \in ModuliLists : \E rs \in ResidueLists(Len(ns)) :
         args = <<Congruences(rs, ns)>>
    /\ ret = 0
    /\ pc = "call"
    /\ Idle

CallSolveCrt ==
    /\ pc = "call" /\ fn = "solve_crt"
    /\ ret' = solve_crt(args[1])
    /\ pc' = "done"
    /\ UNCHANGED <<fn, args, locals>>

SpecSolveCrt == InitSolveCrt /\ [][CallSolveCrt]_vars

----------------------------------------------------------------------------
(* rsa, rsa_crt_distinct_multiprime *)

\* ensure_long leaves an integer x alone; the calls modelled pass integers
rsa(x, exp, n) == pow(x, exp, n)

\* first loop: tis = [-1, modinv(f1, f2), modinv(f1*f2, f3), ...]
RECURSIVE tis_loop(_, _, _, _)
tis_loop(factors, i, m, tis) ==
    IF i > Len(factors) THEN tis
    ELSE tis_loop(factors, i + 1, m * factors[i],
                  Append(tis, modinv(m, factors[i])))

\* last loop (Garner): x += m * (((xi - x % ri) * ti) % ri); m = m * ri
RECURSIVE garner_loop(_, _, _, _, _, _)
garner_loop(factors, xis, tis, i, x, m) ==
    IF i > Len(factors) THEN x
    ELSE LET ri == factors[i]
             xi == xis[i]
             ti == tis[i]
         IN  garner_loop(factors, xis, tis, i + 1,
                         x + m * (((xi - (x % ri)) * ti) % ri), m * ri)

rsa_crt_distinct_multiprime(c, e, factors) ==
    LET k   == Len(factors)
        di  == [i \in 1..k |-> modinv(e, factors[i] - 1)]
        tis == tis_loop(factors, 2, factors[1], <<-1>>)
        xis == [i \in 1..k |-> pow(c, di[i], factors[i])]
    IN  garner_loop(factors, xis, tis, 2, xis[1], factors[1])

Primes == {p \in 2..MaxPrime : IsPrime(p)}

Distinct(s) == \A i, j \in 1..Len(s) : i # j => s[i] # s[j]

FactorLists ==
    {l \in UNION {[1..n -> Primes] : n \in 1..MaxFactors} : Distinct(l)}

\* the public exponents usable with the factors: gcd(e, p - 1) = 1 for each
Exponents(factors) ==
    {e \in 1..MaxExp : \A i \in 1..Len(factors) : Coprime(e, factors[i] - 1)}

InitRsaCrt ==
    /\ fn = "rsa_crt_distinct_multiprime"
    /\ \/ \E f \in FactorLists : \E e \in Exponents(f) :
            \E m \in 0..(Product(f) - 1) : args = <<m, e, f>>
       \/ \E m \in 0..(61 * 53 - 1) : args = <<m, 17, <<61, 53>>>>
    /\ ret = 0
    /\ pc = "call"
    /\ Idle

\* encrypt m with the public key, then decrypt with the factors
CallRsaCrt ==
    /\ pc = "call" /\ fn = "rsa_crt_distinct_multiprime"
    /\ LET n == Product(args[3])
           c == rsa(args[1], args[2], n)
       IN  ret' = rsa_crt_distinct_multiprime(c, args[2], args[3])
    /\ pc' = "done"
    /\ UNCHANGED <<fn, args, locals>>

SpecRsaCrt == InitRsaCrt /\ [][CallRsaCrt]_vars

----------------------------------------------------------------------------
(* legendre_symbol, modular_sqrt (Tonelli-Shanks) *)

legendre_symbol(a, p) ==
    LET ls == pow(a, (p - 1) \div 2, p)
    IN  IF ls = p - 1 THEN -1 ELSE ls

\* while s % 2 == 0: s /= 2; e += 1
RECURSIVE split_loop(_, _)
split_loop(s, e) ==
    IF s % 2 = 0 THEN split_loop(s \div 2, e + 1) ELSE <<s, e>>

\* n = 2; while legendre_symbol(n, p) != -1: n += 1
RECURSIVE non_residue_loop(_, _)
non_residue_loop(n, p) ==
    IF legendre_symbol(n, p) # -1 THEN non_residue_loop(n + 1, p) ELSE n

\* m = 0; for m in xrange(r): if t == 1: break; t = pow(t, 2, p)
\* the value of m after the loop: the index it broke at, or r - 1 when the
\* range ran out, or the initial 0 when the range is empty
RECURSIVE order_loop(_, _, _, _)
order_loop(t, m, r, p) ==
    IF m >= r THEN (IF r = 0 THEN 0 ELSE r - 1)
    ELSE IF t = 1 THEN m
    ELSE order_loop(pow(t, 2, p), m + 1, r, p)

\* while True: ... if m == 0: return x ...
RECURSIVE tonelli_loop(_, _, _, _, _)
tonelli_loop(x, b, g, r, p) ==
    LET m == order_loop(b, 0, r, p)
    IN  IF m = 0 THEN x
        ELSE LET gs == pow(g, Power(2, r - m - 1), p)
                 g2 == (gs * gs) % p
             IN  tonelli_loop((x * gs) % p, (b * g2) % p, g2, m, p)

modular_sqrt_no_correction(a, p) ==
    IF legendre_symbol(a, p) # 1 THEN 0
    ELSE IF a = 0 THEN 0
    ELSE IF p = 2 THEN p
    ELSE IF p % 4 = 3 THEN pow(a, (p + 1) \div 4, p)
    ELSE pow(a, (split_loop(p - 1, 0)[1] + 1) \div 2, p)

modular_sqrt(a, p) ==
    IF legendre_symbol(a, p) # 1 THEN 0
    ELSE IF a = 0 THEN 0
    ELSE IF p = 2 THEN p
    ELSE IF p % 4 = 3 THEN pow(a, (p + 1) \div 4, p)
    ELSE LET se == split_loop(p - 1, 0)
             s  == se[1]
             e  == se[2]
             n  == non_residue_loop(2, p)
             x  == pow(a, (s + 1) \div 2, p)
             b  == pow(a, s, p)
             g  == pow(n, s, p)
         IN  tonelli_loop(x, b, g, e, p)

SqrtPrimes == {p \in 2..MaxSqrtPrime : IsPrime(p)}

InitModularSqrt ==
    /\ fn = "modular_sqrt"
    /\ \E p \in SqrtPrimes : \E a \in 0..(p - 1) : args = <<a, p>>
    /\ ret = 0
    /\ pc = "call"
    /\ Idle

CallModularSqrt ==
    /\ pc = "call" /\ fn = "modular_sqrt"
    /\ ret' = modular_sqrt(args[1], args[2])
    /\ pc' = "done"
    /\ UNCHANGED <<fn, args, locals>>

SpecModularSqrt == InitModularSqrt /\ [][CallModularSqrt]_vars

----------------------------------------------------------------------------
(* hensel_lifting *)

\* The callables f and df: an integer polynomial c0 + c1*x + c2*x^2, given by
\* its coefficients <<c0, c1, c2>>, and its derivative
f_at(coeffs, x) == coeffs[1] + coeffs[2] * x + coeffs[3] * x * x

df_at(coeffs, x) == coeffs[2] + 2 * coeffs[3] * x

\* the body of the inner loop for one candidate n: the solutions it appends
hensel_lifts(coeffs, p, k, n) ==
    LET dfr == df_at(coeffs, n)
        fr  == f_at(coeffs, n)
        pk1 == Power(p, k - 1)
    IN  IF dfr % p # 0
        THEN LET t == ((-(extended_gcd(dfr, p)[2])) * (fr \div pk1)) % p
             IN  <<n + t * pk1>>
        ELSE IF fr % Power(p, k) = 0
             THEN [t \in 1..p |-> n + (t - 1) * pk1]
             ELSE <<>>

\* for i, n in enumerate(previous_solution): ...
RECURSIVE hensel_round(_, _, _, _)
hensel_round(coeffs, p, k, previous_solution) ==
    IF previous_solution = <<>> THEN <<>>
    ELSE hensel_lifts(coeffs, p, k, Head(previous_solution))
            \o hensel_round(coeffs, p, k, Tail(previous_solution))

\* for x in range(k - 1): ... previous_solution = new_solution
RECURSIVE hensel_rounds(_, _, _, _, _)
hensel_rounds(coeffs, p, k, x, previous_solution) ==
    IF x >= k - 1 THEN previous_solution
    ELSE hensel_rounds(coeffs, p, k, x + 1,
                       hensel_round(coeffs, p, k, previous_solution))

hensel_lifting(coeffs, p, k, base_solution) ==
    hensel_rounds(coeffs, p, k, 0, <<base_solution>>)

Polynomials ==
    ((-MaxCoeff)..MaxCoeff) \X ((-MaxCoeff)..MaxCoeff) \X ((-MaxCoeff)..MaxCoeff)

HenselPrimes == {p \in 2..MaxHenselPrime : IsPrime(p)}

\* <<f, p, k, base_solution>> with f(base_solution) = 0 mod p
InitHensel ==
    /\ fn = "hensel_lifting"
    /\ \E c \in Polynomials : \E p \in HenselPrimes : \E k \in 1..MaxPower :
         \E b \in 0..(p - 1) :
            /\ f_at(c, b) % p = 0
            /\ args = <<c, p, k, b>>
    /\ ret = <<>>
    /\ pc = "call"
    /\ Idle

CallHensel ==
    /\ pc = "call" /\ fn = "hensel_lifting"
    /\ ret' = hensel_lifting(args[1], args[2], args[3], args[4])
    /\ pc' = "done"
    /\ UNCHANGED <<fn, args, locals>>

SpecHensel == InitHensel /\ [][CallHensel]_vars

----------------------------------------------------------------------------
(* hastad_broadcast *)

\* gmpy2.iroot(x, k)[0]: the largest s with s^k <= x, for x >= 0 and k >= 1
RECURSIVE iroot_search(_, _, _)
iroot_search(x, k, s) ==
    IF Power(s + 1, k) > x THEN s ELSE iroot_search(x, k, s + 1)

iroot(x, k) == iroot_search(x, k, 0)

\* ok is FALSE when the assert fails (the call raises AssertionError)
hastad_broadcast_unverified(residue_and_moduli) ==
    LET k        == Len(residue_and_moduli)
        solution == iroot(solve_crt(residue_and_moduli), k)
    IN  [ok |-> TRUE, solution |-> solution]

hastad_broadcast(residue_and_moduli) ==
    LET k        == Len(residue_and_moduli)
        solution == iroot(solve_crt(residue_and_moduli), k)
    IN  [ok       |-> residue_and_moduli[1][1]
                         = pow(solution, k, residue_and_moduli[1][2]),
         solution |-> solution]

\* the k pairs (m^k mod n_i, n_i) of a message m sent to the moduli ns
Broadcast(m, ns) ==
    [i \in 1..Len(ns) |-> <<Power(m, Len(ns)) % ns[i], ns[i]>>]

InitHastad ==
    /\ fn = "hastad_broadcast"
    /\ \E ns \in ModuliLists :
         \/ \E m \in 0..(MaxModulus - 1) : args = <<Broadcast(m, ns)>>
         \/ \E rs \in ResidueLists(Len(ns)) : args = <<Congruences(rs, ns)>>
    /\ ret = 0
    /\ pc = "call"
    /\ Idle

CallHastad ==
    /\ pc = "call" /\ fn = "hastad_broadcast"
    /\ LET r == hastad_broadcast(args[1])
       IN  IF r.ok
           THEN ret' = r.solution /\ pc' = "done"
           ELSE ret' = ret /\ pc' = "failed"
    /\ UNCHANGED <<fn, args, locals>>

SpecHastad == InitHastad /\ [][CallHastad]_vars

----------------------------------------------------------------------------
(* gcd_multi, lcm, lcm_multi *)

\* p4team.crypto_commons.generic.multiply: the product of a sequence
multiply(numbers) == Product(numbers)

\* reduce(gcd, numbers) on a non-empty list
RECURSIVE reduce_gcd(_, _)
reduce_gcd(acc, rest) ==
    IF rest = <<>> THEN acc ELSE reduce_gcd(gcd(acc, Head(rest)), Tail(rest))

gcd_multi(numbers) == reduce_gcd(Head(numbers), Tail(numbers))

lcm(a, b) == (a * b) \div gcd(a, b)

lcm_multi(numbers) == multiply(numbers) \div gcd_multi(numbers)

NumberLists == UNION {[1..n -> 1..MaxNumber] : n \in 1..MaxNumbers}

InitLcm ==
    /\ \/ fn = "lcm" /\ args \in (1..MaxArg) \X (1..MaxArg)
       \/ fn = "lcm_multi" /\ args \in {<<l>> : l \in NumberLists}
    /\ ret = 0
    /\ pc = "call"
    /\ Idle

CallLcm ==
    /\ pc = "call" /\ fn = "lcm"
    /\ ret' = lcm(args[1], args[2])
    /\ pc' = "done"
    /\ UNCHANGED <<fn, args, locals>>

CallLcmMulti ==
    /\ pc = "call" /\ fn = "lcm_multi"
    /\ ret' = lcm_multi(args[1])
    /\ pc' = "done"
    /\ UNCHANGED <<fn, args, locals>>

SpecLcm == InitLcm /\ [][CallLcm \/ CallLcmMulti]_vars

----------------------------------------------------------------------------
(* combine_signatures, homomorphic_blinding_rsa *)

\* p4team.crypto_commons.generic.bytes_to_long: big-endian unsigned
RECURSIVE bytes_to_long_from(_, _)
bytes_to_long_from(acc, bytes) ==
    IF bytes = <<>> THEN acc
    ELSE bytes_to_long_from(acc * 256 + Head(bytes), Tail(bytes))

bytes_to_long(bytes) == bytes_to_long_from(0, bytes)

\* p4team.crypto_commons.generic.find_divisor(n): the values it may return,
\* the divisors d of n with 1 < d < n
find_divisor_results(n) == {d \in 2..(n - 1) : n % d = 0}

\* the caller's get_signature: raw RSA with private exponent d, v^d mod N
get_signature(value, d, N) == pow(value, d, N)

combine_signatures_unreduced(sigs, N) == multiply(sigs)

combine_signatures(sigs, N) == multiply(sigs) % N

Payload == args[1]
Modulus == args[2]
PrivateExponent == args[3]
Splits == args[4]

Payloads ==
    {<<lo>> : lo \in 0..MaxByte}
        \cup {<<hi, lo>> : hi \in 0..MaxHighByte, lo \in 0..MaxByte}

\* signing keys <<N, d>> of the oracle
Keys == {<<33, 3>>, <<35, 5>>}

InitBlinding ==
    /\ fn = "homomorphic_blinding_rsa"
    /\ \E payload \in Payloads : \E key \in Keys : \E splits \in 0..MaxSplits :
         args = <<payload, key[1], key[2], splits>>
    /\ ret = 0
    /\ pc = "call"
    /\ Idle

\* lines 223-226, and (when splits = 0) line 231: `payload is not int` holds of
\* every payload, which is always passed through bytes_to_long
Normalize ==
    /\ pc = "call" /\ fn = "homomorphic_blinding_rsa"
    /\ data' = bytes_to_long(Payload)
    /\ IF Splits = 0
       THEN parts' = <<data'>> /\ pc' = "sign"
       ELSE parts' = <<>> /\ pc' = "split"
    /\ UNCHANGED <<fn, args, ret, signatures, log>>

\* one iteration of the splitting loop where find_divisor returns; after the
\* last iteration the remaining quotient is appended (line 231)
FindDivisorReturns ==
    /\ pc = "split"
    /\ \E smallest_divisor \in find_divisor_results(data) :
         LET collected == Append(parts, smallest_divisor)
             quotient  == data \div smallest_divisor
         IN  /\ log' = Append(log, [call |-> "find_divisor", arg |-> data,
                                    ok |-> TRUE, result |-> smallest_divisor])
             /\ data' = quotient
             /\ IF Len(collected) = Splits
                THEN parts' = Append(collected, quotient) /\ pc' = "sign"
                ELSE parts' = collected /\ pc' = "split"
    /\ UNCHANGED <<fn, args, ret, signatures>>

\* find_divisor raises: the exception leaves homomorphic_blinding_rsa
FindDivisorFails ==
    /\ pc = "split"
    /\ log' = Append(log, [call |-> "find_divisor", arg |-> data,
                           ok |-> FALSE, result |-> 0])
    /\ pc' = "failed"
    /\ UNCHANGED <<fn, args, ret, data, parts, signatures>>

\* one element of the comprehension of line 232, last to first
GetSignatureReversed ==
    /\ pc = "sign"
    /\ LET value == parts[Len(parts) - Len(signatures)]
           sigs  == Append(signatures, get_signature(value, PrivateExponent, Modulus))
       IN  /\ log' = Append(log, [call |-> "get_signature", arg |-> value,
                                  ok |-> TRUE, result |-> sigs[Len(sigs)]])
           /\ signatures' = sigs
           /\ IF Len(sigs) = Len(parts)
              THEN ret' = combine_signatures(sigs, Modulus) /\ pc' = "done"
              ELSE ret' = ret /\ pc' = "sign"
    /\ UNCHANGED <<fn, args, data, parts>>

\* one element of the comprehension of line 232; after the last one,
\* combine_signatures and the return (lines 233-234)
GetSignature ==
    /\ pc = "sign"
    /\ LET value == parts[Len(signatures) + 1]
           sigs  == Append(signatures, get_signature(value, PrivateExponent, Modulus))
       IN  /\ log' = Append(log, [call |-> "get_signature", arg |-> value,
                                  ok |-> TRUE, result |-> sigs[Len(sigs)]])
           /\ signatures' = sigs
           /\ IF Len(sigs) = Len(parts)
              THEN ret' = combine_signatures(sigs, Modulus) /\ pc' = "done"
              ELSE ret' = ret /\ pc' = "sign"
    /\ UNCHANGED <<fn, args, data, parts>>

NextBlinding ==
    \/ Normalize
    \/ FindDivisorReturns
    \/ FindDivisorFails
    \/ GetSignature

SpecBlinding == InitBlinding /\ [][NextBlinding]_vars

----------------------------------------------------------------------------
(* The claims *)

\* C1 as stated: for all coprime x, y > 0, modinv(x, y) returns d with
\* 0 <= d < y and (x * d) mod y = 1.
C1_Original ==
    (pc = "done" /\ fn = "modinv" /\ Coprime(args[1], args[2]))
        => /\ 0 <= ret /\ ret < args[2]
           /\ (args[1] * ret) % args[2] = 1

\* C1 amended: for all coprime x, y > 0, modinv(x, y) returns d with
\* 0 <= d < y and (x * d) mod y = 1 mod y (which is 1 for y > 1, and 0 for y = 1).
C1_ModinvIsInverse ==
    (pc = "done" /\ fn = "modinv" /\ Coprime(args[1], args[2]))
        => /\ 0 <= ret /\ ret < args[2]
           /\ (args[1] * ret) % args[2] = 1 % args[2]

C1_Witness ==
    pc = "done" /\ fn = "modinv" /\ args = <<7, 12>> /\ ret = 7

\* C2: for all integers a, b, extended_gcd(a, b) returns (g, s, t) with
\* g = s*a + t*b and g = gcd(|a|, |b|) >= 0; extended_gcd(0, 0) has g = 0.
C2_BezoutTriple ==
    (pc = "done" /\ fn = "extended_gcd")
        => /\ ret[1] = ret[2] * args[1] + ret[3] * args[2]
           /\ ret[1] >= 0
           /\ IsGcd(ret[1], Abs(args[1]), Abs(args[2]))
           /\ args = <<0, 0>> => ret[1] = 0

C2_Witness ==
    pc = "done" /\ fn = "extended_gcd" /\ args = <<-9, 6>> /\ ret[1] = 3

\* C3: for every non-empty list of (residue_i, modulus_i) with pairwise-coprime
\* moduli > 1, solve_crt returns x with 0 <= x < N = product of the moduli and
\* x mod modulus_i = residue_i mod modulus_i for every i;
\* solve_crt([(2,3),(3,5),(2,7)]) = 23.
C3_CrtSolution ==
    (pc = "done" /\ fn = "solve_crt")
        => LET l == args[1]
           IN  /\ 0 <= ret /\ ret < Product(ModuliOf(l))
               /\ \A i \in 1..Len(l) : ret % l[i][2] = l[i][1] % l[i][2]
               /\ l = <<(<<2, 3>>), (<<3, 5>>), (<<2, 7>>)>> => ret = 23

C3_Witness ==
    /\ pc = "done" /\ fn = "solve_crt"
    /\ args[1] = <<(<<2, 3>>), (<<3, 5>>), (<<2, 7>>)>>
    /\ ret = 23

\* C4: RSA-CRT round trip: for distinct primes `factors` with product n, e with
\* gcd(e, p-1) = 1 for every factor p and 0 <= m < n,
\* rsa_crt_distinct_multiprime(rsa(m, e, n), e, factors) = m.
C4_RoundTrip ==
    (pc = "done" /\ fn = "rsa_crt_distinct_multiprime") => ret = args[1]

\* what does hold: the round trip when no factor is 2
C4_RoundTripOddFactors ==
    (/\ pc = "done" /\ fn = "rsa_crt_distinct_multiprime"
     /\ \A i \in 1..Len(args[3]) : args[3][i] # 2)
        => ret = args[1]

\* a is a non-zero square modulo p
IsQuadraticResidue(a, p) == a % p # 0 /\ \E r \in 1..(p - 1) : (r * r) % p = a % p

\* C5: for every odd prime p and every a in [0, p): if legendre_symbol(a, p) = 1
\* then modular_sqrt(a, p) returns r with (r * r) mod p = a; if
\* legendre_symbol(a, p) = -1 or a = 0 then modular_sqrt(a, p) returns 0.
C5_ModularSqrt ==
    (pc = "done" /\ fn = "modular_sqrt" /\ args[2] # 2)
        => LET a == args[1]
               p == args[2]
           IN  /\ legendre_symbol(a, p) = 1 => (ret * ret) % p = a
               /\ (legendre_symbol(a, p) = -1 \/ a = 0) => ret = 0
               /\ IsQuadraticResidue(a, p) => (ret * ret) % p = a
               /\ ~IsQuadraticResidue(a, p) => ret = 0

\* a residue of a prime p = 1 mod 16, where Tonelli-Shanks iterates
C5_Witness ==
    /\ pc = "done" /\ fn = "modular_sqrt"
    /\ args = <<2, 17>> /\ (ret * ret) % 17 = 2

\* C6: for a prime p, any k >= 1, an integer polynomial f with derivative df and
\* a base_solution b with f(b) mod p = 0, every r returned by
\* hensel_lifting(f, df, p, k, b) satisfies f(r) mod p^k = 0; for k = 1 the
\* list is exactly [b].
C6_LiftedRoots ==
    (pc = "done" /\ fn = "hensel_lifting")
        => /\ \A i \in 1..Len(ret) :
                f_at(args[1], ret[i]) % Power(args[2], args[3]) = 0
           /\ args[3] = 1 => ret = <<args[4]>>

\* what does hold: the claim for k <= 2, where k - 1 is the level of the only round
C6_LiftedRootsToSquare ==
    (pc = "done" /\ fn = "hensel_lifting" /\ args[3] <= 2)
        => /\ \A i \in 1..Len(ret) :
                f_at(args[1], ret[i]) % Power(args[2], args[3]) = 0
           /\ args[3] = 1 => ret = <<args[4]>>

\* the solution of the congruences in [0, N), and the integer k-th root
CrtValue(l) ==
    CHOOSE x \in 0..(Product(ModuliOf(l)) - 1) :
        \A i \in 1..Len(l) : x % l[i][2] = l[i][1] % l[i][2]

FloorRoot(x, k) == CHOOSE s \in 0..x : Power(s, k) <= x /\ x < Power(s + 1, k)

\* C7: for k >= 1 pairs (m^k mod n_i, n_i) of one m >= 0 and pairwise-coprime
\* moduli with m^k < n_1*...*n_k, hastad_broadcast returns exactly m; and
\* whenever the integer k-th root s of the CRT value does not satisfy
\* s^k mod n_1 = residue_1, the call fails instead of returning a value.
C7_HastadRecovers ==
    (pc # "call" /\ fn = "hastad_broadcast")
        => LET l == args[1]
               k == Len(l)
               s == FloorRoot(CrtValue(l), k)
           IN  /\ \A m \in 0..(MaxModulus - 1) :
                    (Power(m, k) < Product(ModuliOf(l)) /\ l = Broadcast(m, ModuliOf(l)))
                        => (pc = "done" /\ ret = m)
               /\ Power(s, k) % l[1][2] # l[1][1] => pc = "failed"

C7_Witness ==
    /\ pc = "done" /\ fn = "hastad_broadcast"
    /\ args[1] = Broadcast(3, <<3, 4, 5>>) /\ ret = 3

\* v is the least common multiple of the positive numbers of s
IsLcm(v, s) ==
    /\ v > 0
    /\ \A i \in 1..Len(s) : v % s[i] = 0
    /\ \A w \in 1..(v - 1) : \E i \in 1..Len(s) : w % s[i] # 0

\* C9: for every non-empty list of positive integers, lcm_multi(numbers) is the
\* least common multiple of the elements, and for positive a, b, lcm(a, b) is
\* their least common multiple.
C9_LeastCommonMultiple ==
    /\ (pc = "done" /\ fn = "lcm_multi") => IsLcm(ret, args[1])
    /\ (pc = "done" /\ fn = "lcm") => IsLcm(ret, args)

\* what does hold: lcm of two numbers, and lcm_multi of a list of two
C9_LcmOfTwo ==
    /\ (pc = "done" /\ fn = "lcm_multi" /\ Len(args[1]) = 2) => IsLcm(ret, args[1])
    /\ (pc = "done" /\ fn = "lcm") => IsLcm(ret, args)

\* b^e mod n
RECURSIVE ExpMod(_, _, _)
ExpMod(b, e, n) == IF e = 0 THEN 1 % n ELSE ((b % n) * ExpMod(b, e - 1, n)) % n

\* C8: with a raw-RSA signing oracle sign(v) = v^d mod N and a find_divisor that
\* always returns a non-trivial divisor, homomorphic_blinding_rsa(payload, sign,
\* N, splits) returns payload_int^d mod N for every splits >= 1, computed as
\* combine_signatures(sigs, N) = (product of sigs) mod N.
C8_SignatureOfPayload ==
    (pc = "done" /\ fn = "homomorphic_blinding_rsa" /\ Splits >= 1)
        => /\ ret = ExpMod(bytes_to_long(Payload), PrivateExponent, Modulus)
           /\ ret = Product(signatures) % Modulus

\* 260 = 2 * 2 * 65 signed in three parts
C8_Witness ==
    /\ pc = "done" /\ fn = "homomorphic_blinding_rsa"
    /\ Payload = <<1, 4>> /\ Splits = 2 /\ parts = <<2, 2, 65>>
    /\ Modulus = 33 /\ ret = ExpMod(260, 3, 33)

CallsTo(name) == SelectSeq(log, LAMBDA c : c.call = name)

ArgsOf(calls) == [i \in 1..Len(calls) |-> calls[i].arg]

ResultsOf(calls) == [i \in 1..Len(calls) |-> calls[i].result]

====
